---- MODULE Spec2Model ----
(***************************************************************************)
(* EdgeAI smart parking: the transmission gate of edge_simulator.py and    *)
(* the message decoder of streamlit_dashboard.py.                          *)
(*                                                                         *)
(* Text (topics, payloads) is a sequence of one-character strings, so     *)
(* that the f-string renderings and the regular expressions of the code   *)
(* are computed character by character.                                    *)
(* A float is a non-negative rational [num, den]; the floats the model    *)
(* draws are exact or far from a rounding tie, so the correctly rounded   *)
(* rendering of the float is the rendering of the rational.               *)
(***************************************************************************)
EXTENDS Integers, Sequences, FiniteSets, TLC

\* ------------------------------------------------------------------ bounds
\* longest input sequence (rows of features.csv)
MaxN == 4
\* publish calls of one run that may return an error code
MaxFailures == 1
\* pred_prob is drawn from k / ProbDen, k in 0..ProbDen
ProbDen == 16

\* ------------------------------------------------------------------ text
DigitChars == <<"0", "1", "2", "3", "4", "5", "6", "7", "8", "9">>

RECURSIVE Pow10(_)
Pow10(n) == IF n = 0 THEN 1 ELSE 10 * Pow10(n - 1)

\* str(n) / f"{n}" of a non-negative int
RECURSIVE Dec(_)
Dec(n) == IF n < 10 THEN <<DigitChars[n + 1]>>
          ELSE Dec(n \div 10) \o <<DigitChars[(n % 10) + 1]>>

\* n rendered with at least w digits (zero padded on the left)
RECURSIVE ZeroPad(_, _)
ZeroPad(n, w) == IF w <= 1 THEN Dec(n)
                 ELSE IF n < Pow10(w - 1) THEN <<"0">> \o ZeroPad(n, w - 1)
                 ELSE Dec(n)

IsDigit(c) == c \in {"0", "1", "2", "3", "4", "5", "6", "7", "8", "9"}

DigitVal(c) == CHOOSE d \in 0..9 : DigitChars[d + 1] = c

AllDigits(t) == Len(t) > 0 /\ \A k \in 1..Len(t) : IsDigit(t[k])

\* int(t) of a text of decimal digits
RECURSIVE ParseInt(_)
ParseInt(t) == IF Len(t) = 0 THEN 0
               ELSE 10 * ParseInt(SubSeq(t, 1, Len(t) - 1)) + DigitVal(t[Len(t)])

\* t begins with the text p
StartsWith(t, p) == Len(t) >= Len(p) /\ SubSeq(t, 1, Len(p)) = p

CHANGE == <<"C", "H", "A", "N", "G", "E">>
PRED_CHANGE == <<"P", "R", "E", "D", "_", "C", "H", "A", "N", "G", "E">>

\* mutant: the digits after `places` are cut off
RoundTruncate(num, den, places) == (num * Pow10(places)) \div den

\* num/den rounded to `places` decimals, ties to even, as an integer number
\* of 10^-places
RoundHalfEven(num, den, places) ==
    LET scaled == num * Pow10(places)
        q == scaled \div den
        r == scaled % den
    IN IF 2 * r > den \/ (2 * r = den /\ q % 2 = 1) THEN q + 1 ELSE q

\* f"{x:.<places>f}" of the float num/den >= 0
FormatFixed(num, den, places) ==
    LET h == RoundHalfEven(num, den, places)
    IN Dec(h \div Pow10(places)) \o <<".">> \o ZeroPad(h % Pow10(places), places)

\* str(row["timestamp"]) of the pandas Timestamp t seconds after the first one
TsStr(t) ==
    <<"2", "0", "2", "4", "-", "0", "1", "-", "0", "1", " ",
      "0", "0", ":", "0", "0", ":">> \o ZeroPad(t, 2)

\* ------------------------------------------------------------------ state
VARIABLES
    slot,        \* the slot number of the simulator's topics
    df,          \* the input frame
    pc,          \* position of the simulator process
    i,           \* the row the loop is at (1-based)
    last_state,  \* run_simulation: last_state
    edge_tx,     \* run_simulation: edge_tx
    trad_tx,     \* run_simulation: trad_tx
    published,   \* the calls of client.publish, in order
    summary,     \* __main__: summary
    received,    \* how many of the published messages the broker has passed on
    msg_queue,   \* mqtt_shared.msg_queue: (topic, text) pairs
    session_state, \* st.session_state of the dashboard
    clock,       \* the calls of pd.Timestamp.now() so far
    dash_pc,     \* position of the dashboard script: "drain" or "idle"
    processed,   \* the drain loop's counter of this script run
    listener,    \* the mqtt_thread: "none", "connected" or "failed"
    arrived      \* every (topic, text) on_message has put on the queue

simVars == <<slot, df, pc, i, last_state, edge_tx, trad_tx, published, summary>>
dashVars == <<received, msg_queue, session_state, clock,
              dash_pc, processed, listener, arrived>>
vars == <<simVars, dashVars>>

\* ------------------------------------------------------------------ topics
\* the slot number in the topics of the USER SETTINGS
SLOT == 1

SLOT_TEXT == <<"s", "l", "o", "t">>
NAMESPACE == <<"s", "m", "a", "r", "t", "p", "a", "r", "k", "i", "n", "g", "/">>

\* "smartparking/slot<n>/state"
MQTT_TOPIC_STATE ==
    NAMESPACE \o SLOT_TEXT \o Dec(slot) \o <<"/", "s", "t", "a", "t", "e">>
\* "smartparking/slot<n>/event"
MQTT_TOPIC_EVENT ==
    NAMESPACE \o SLOT_TEXT \o Dec(slot) \o <<"/", "e", "v", "e", "n", "t">>
\* "smartparking/metrics/transmissions"
MQTT_TOPIC_METRICS ==
    NAMESPACE \o <<"m", "e", "t", "r", "i", "c", "s", "/",
                   "t", "r", "a", "n", "s", "m", "i", "s", "s", "i", "o", "n", "s">>

\* ------------------------------------------------------------------ wire format
\* f"CHANGE: state={occ}, ts={row['timestamp']}"
ChangePayload(occ, ts) ==
    <<"C", "H", "A", "N", "G", "E", ":", " ", "s", "t", "a", "t", "e", "=">>
    \o Dec(occ) \o <<",", " ", "t", "s", "=">> \o TsStr(ts)

\* f"{occ}"
StatePayload(occ) == Dec(occ)

\* f"PRED_CHANGE: prob={prob:.3f}, ts={row['timestamp']}"
PredChangePayload(prob, ts) ==
    <<"P", "R", "E", "D", "_", "C", "H", "A", "N", "G", "E", ":", " ",
      "p", "r", "o", "b", "=">>
    \o FormatFixed(prob.num, prob.den, 3)
    \o <<",", " ", "t", "s", "=">> \o TsStr(ts)

\* reduction = 100 * (1 - edge_tx / trad_tx) if trad_tx > 0 else 0.0
Reduction(e, t) == IF t > 0 THEN [num |-> 100 * (t - e), den |-> t]
                   ELSE [num |-> 0, den |-> 1]

\* f"Traditional={trad_tx}, EdgeAI={edge_tx}, Reduction={reduction:.2f}%"
SummaryPayload(e, t) ==
    <<"T", "r", "a", "d", "i", "t", "i", "o", "n", "a", "l", "=">> \o Dec(t)
    \o <<",", " ", "E", "d", "g", "e", "A", "I", "=">> \o Dec(e)
    \o <<",", " ", "R", "e", "d", "u", "c", "t", "i", "o", "n", "=">>
    \o FormatFixed(Reduction(e, t).num, Reduction(e, t).den, 2) \o <<"%">>

\* ------------------------------------------------------------------ input
\* df["pred_label"] = (df["pred_prob"] > 0.5).astype(int)
PredLabel(prob) == IF 2 * prob.num > prob.den THEN 1 ELSE 0

\* one row of df as run_simulation reads it
Row(occ, prob, ts) ==
    [occupied_now |-> occ, pred_prob |-> prob,
     pred_label |-> PredLabel(prob), timestamp |-> ts]

\* a frame from its occupancy and probability columns, sorted by timestamp
\* (row r is r-1 seconds after the first)
Frame(o, p) == [r \in 1..Len(o) |-> Row(o[r], p[r], r - 1)]

LowProb == [num |-> ProbDen \div 4, den |-> ProbDen]
HighProb == [num |-> ProbDen - 1, den |-> ProbDen]

\* one below and one above 0.5: the classifier outputs the gate runs draw
GateProbs == {LowProb, HighProb}

\* occupancy [0,0,1,1,0] with predictions all 0, and occupancy [0,0,0] with
\* predictions [0,1,0]
ScenarioFrames ==
    {Frame(<<0, 0, 1, 1, 0>>, <<LowProb, LowProb, LowProb, LowProb, LowProb>>),
     Frame(<<0, 0, 0>>, <<LowProb, HighProb, LowProb>>)}

\* the frames of at most MaxN rows, and the two scenarios
Frames ==
    UNION {
        { Frame(o, p) : o \in [1..n -> {0, 1}], p \in [1..n -> GateProbs] }
        : n \in 0..MaxN }
    \cup ScenarioFrames

\* ------------------------------------------------------------------ decoder
\* capacity of every deque of the dashboard
DEQUE_MAXLEN == 2000

LETTERS ==
    {"a", "b", "c", "d", "e", "f", "g", "h", "i", "j", "k", "l", "m",
     "n", "o", "p", "q", "r", "s", "t", "u", "v", "w", "x", "y", "z",
     "A", "B", "C", "D", "E", "F", "G", "H", "I", "J", "K", "L", "M",
     "N", "O", "P", "Q", "R", "S", "T", "U", "V", "W", "X", "Y", "Z"}
\* \d
DIGIT == {"0", "1", "2", "3", "4", "5", "6", "7", "8", "9"}
\* [\d\.]
DIGIT_DOT == DIGIT \cup {"."}
\* \w
WORD == LETTERS \cup DIGIT \cup {"_"}
\* \s
SPACE == {" ", "\t", "\n", "\r"}

\* payload.strip()
Strip(t) ==
    LET keep == {k \in 1..Len(t) : t[k] \notin SPACE}
    IN IF keep = {} THEN <<>>
       ELSE SubSeq(t, CHOOSE k \in keep : \A l \in keep : k <= l,
                      CHOOSE k \in keep : \A l \in keep : k >= l)

\* p in t
Contains(t, p) ==
    \E k \in 1..(Len(t) - Len(p) + 1) : SubSeq(t, k, k + Len(p) - 1) = p

\* t.endswith(p)
EndsWith(t, p) ==
    Len(t) >= Len(p) /\ SubSeq(t, Len(t) - Len(p) + 1, Len(t)) = p

\* the text p stands in t at position k
At(t, k, p) == k + Len(p) - 1 <= Len(t) /\ SubSeq(t, k, k + Len(p) - 1) = p

\* the end of the longest run of characters of cls that starts at q
\* (q - 1 when t[q] is not in cls)
RunEnd(t, q, cls) ==
    CHOOSE e \in (q - 1)..Len(t) :
        /\ \A k \in q..e : t[k] \in cls
        /\ (e = Len(t) \/ t[e + 1] \notin cls)

NoMatch == [ok |-> FALSE, group |-> <<>>]
Match(g) == [ok |-> TRUE, group |-> g]

\* re.search(lit + "(" + cls + "+)", t): the group of the leftmost match
SearchLitRun(t, lit, cls) ==
    LET at == {k \in 1..Len(t) :
                 /\ At(t, k, lit)
                 /\ k + Len(lit) <= Len(t)
                 /\ t[k + Len(lit)] \in cls}
    IN IF at = {} THEN NoMatch
       ELSE LET k == CHOOSE a \in at : \A b \in at : a <= b
                q == k + Len(lit)
            IN Match(SubSeq(t, q, RunEnd(t, q, cls)))

\* re.search(r"state\s*=\s*(\d+)", t)
SearchState(t) ==
    LET lit == <<"s", "t", "a", "t", "e">>
        \* where the digits begin when the pattern matches at k, else 0
        digitsAt(k) ==
            IF ~At(t, k, lit) THEN 0
            ELSE LET eq == RunEnd(t, k + 5, SPACE) + 1
                 IN IF eq > Len(t) \/ t[eq] # "=" THEN 0
                    ELSE LET d == RunEnd(t, eq + 1, SPACE) + 1
                         IN IF d > Len(t) \/ t[d] \notin DIGIT THEN 0 ELSE d
        at == {k \in 1..Len(t) : digitsAt(k) # 0}
    IN IF at = {} THEN NoMatch
       ELSE LET k == CHOOSE a \in at : \A b \in at : a <= b
            IN Match(SubSeq(t, digitsAt(k), RunEnd(t, digitsAt(k), DIGIT)))

\* re.findall(r"(\w+)=([\d\.]+)", t) from position p on: the (key, value)
\* pairs of the matches, left to right, without overlap
RECURSIVE FindAllKeyValue(_, _)
FindAllKeyValue(t, p) ==
    IF p > Len(t) THEN <<>>
    ELSE LET w == RunEnd(t, p, WORD)
         IN IF w >= p /\ w + 2 <= Len(t) /\ t[w + 1] = "="
               /\ t[w + 2] \in DIGIT_DOT
            THEN LET e == RunEnd(t, w + 2, DIGIT_DOT)
                 IN <<<<SubSeq(t, p, w), SubSeq(t, w + 2, e)>>>>
                    \o FindAllKeyValue(t, e + 1)
            ELSE FindAllKeyValue(t, p + 1)

\* Python values: int, float (num / 10^exp, without trailing zeros), None, str
PyInt(n) == <<"int", n>>
PyFloat(num, exp) == <<"float", num, exp>>
PyNone == <<"None">>
PyStr(t) == <<"str", t>>

\* float(v) succeeds on a text of digits and dots: one dot at most, a digit
IsFloatText(v) ==
    /\ Cardinality({k \in 1..Len(v) : v[k] = "."}) <= 1
    /\ \E k \in 1..Len(v) : v[k] \in DIGIT

\* float(v) of such a text
RECURSIVE StripZeros(_)
StripZeros(t) == IF Len(t) > 0 /\ t[Len(t)] = "0"
                 THEN StripZeros(SubSeq(t, 1, Len(t) - 1)) ELSE t

FloatOf(v) ==
    LET dots == {k \in 1..Len(v) : v[k] = "."}
        dot == IF dots = {} THEN Len(v) + 1 ELSE CHOOSE k \in dots : TRUE
        frac == StripZeros(SubSeq(v, dot + 1, Len(v)))
    IN PyFloat(ParseInt(SubSeq(v, 1, dot - 1) \o frac), Len(frac))

\* int(x) of a float
IntOfFloat(f) == PyInt(f[2] \div Pow10(f[3]))

\* int(text) succeeds on an optional sign and decimal digits
IsIntText(t) ==
    IF Len(t) > 0 /\ t[1] \in {"+", "-"} THEN AllDigits(Tail(t)) ELSE AllDigits(t)

IntOf(t) ==
    IF t[1] = "-" THEN PyInt(0 - ParseInt(Tail(t)))
    ELSE IF t[1] = "+" THEN PyInt(ParseInt(Tail(t)))
    ELSE PyInt(ParseInt(t))

\* str(x) / f"{x}"
PyText(x) ==
    CASE x[1] = "int" -> IF x[2] < 0 THEN <<"-">> \o Dec(0 - x[2]) ELSE Dec(x[2])
      [] x[1] = "float" ->
            Dec(x[2] \div Pow10(x[3])) \o <<".">>
            \o (IF x[3] = 0 THEN <<"0">> ELSE ZeroPad(x[2] % Pow10(x[3]), x[3]))
      [] x[1] = "None" -> <<"N", "o", "n", "e">>
      [] OTHER -> x[2]

\* mutant: a full deque drops its newest entry, not its oldest
AppendLeft_EvictsNewest(d, x) ==
    IF Len(d) >= DEQUE_MAXLEN THEN <<x>> \o SubSeq(d, 2, DEQUE_MAXLEN)
    ELSE <<x>> \o d

\* mutant: the new entry goes to the right end
AppendLeft_AtRight(d, x) ==
    IF Len(d) < DEQUE_MAXLEN THEN Append(d, x)
    ELSE Append(SubSeq(d, 2, Len(d)), x)

\* deque.appendleft(x) with maxlen: the rightmost entry is dropped when full
AppendLeft(d, x) ==
    IF Len(d) >= DEQUE_MAXLEN THEN <<x>> \o SubSeq(d, 1, DEQUE_MAXLEN - 1)
    ELSE <<x>> \o d

\* ------------------------------------------------------------------ dashboard state
EmptyDeque == <<>>

\* the session state the init(...) calls create
InitialSessionState ==
    [events |-> <<>>, pred_probs |-> <<>>, occupancy |-> <<>>,
     raw_log |-> EmptyDeque,
     metrics |-> [Traditional |-> PyNone, EdgeAI |-> PyNone, Reduction |-> PyNone],
     mqtt_started |-> FALSE]

\* mqtt_shared.msg_queue, a queue.Queue: empty(), put(x), get_nowait()
EmptyQueue == <<>>
QueueEmpty(q) == q = <<>>
QueuePut(q, x) == Append(q, x)
QueueFront(q) == Head(q)
QueueRest(q) == Tail(q)

\* mutant: a slot id not seen before replaces the dict's other keys
SetDefault_Replaces(dict, k) == IF k \in DOMAIN dict THEN dict ELSE (k :> EmptyDeque)

\* a dict with the key k added when it is missing
SetDefault(dict, k) == IF k \in DOMAIN dict THEN dict ELSE dict @@ (k :> EmptyDeque)

EnsureSlotStructs(ss, slot_id) ==
    [ss EXCEPT !.events = SetDefault(@, slot_id),
               !.pred_probs = SetDefault(@, slot_id),
               !.occupancy = SetDefault(@, slot_id)]

\* mutant: the slot of the topic is not read, every message goes to slot1
SlotIdOf_AlwaysDefault(topic) == SLOT_TEXT \o <<"1">>

\* m_slot = re.search(r"slot(\d+)", topic); slot_id, "slot1" without a match
SlotIdOf(topic) ==
    LET m_slot == SearchLitRun(topic, SLOT_TEXT, DIGIT)
    IN IF m_slot.ok THEN SLOT_TEXT \o m_slot.group ELSE SLOT_TEXT \o <<"1">>

TRADITIONAL == <<"T", "r", "a", "d", "i", "t", "i", "o", "n", "a", "l">>
EDGEAI == <<"E", "d", "g", "e", "A", "I">>
REDUCTION == <<"R", "e", "d", "u", "c", "t", "i", "o", "n">>

RECURSIVE ApplyMetrics_Adds(_, _)
\* mutant: the traditional count is added to the one held
ApplyMetrics_Adds(metrics, m) ==
    IF m = <<>> THEN metrics
    ELSE LET k == m[1][1]
             v == m[1][2]
             next ==
                 IF k = TRADITIONAL
                 THEN [metrics EXCEPT !.Traditional =
                         IF ~IsFloatText(v) THEN PyStr(v)
                         ELSE IF @[1] = "int"
                         THEN PyInt(@[2] + IntOfFloat(FloatOf(v))[2])
                         ELSE IntOfFloat(FloatOf(v))]
                 ELSE IF k = EDGEAI
                 THEN [metrics EXCEPT !.EdgeAI =
                         IF IsFloatText(v) THEN IntOfFloat(FloatOf(v)) ELSE PyStr(v)]
                 ELSE IF k = REDUCTION
                 THEN [metrics EXCEPT !.Reduction =
                         IF IsFloatText(v) THEN FloatOf(v) ELSE PyStr(v)]
                 ELSE metrics
         IN ApplyMetrics_Adds(next, Tail(m))

\* the loop "for k, v in m" of the metrics branch
RECURSIVE ApplyMetrics(_, _)
ApplyMetrics(metrics, m) ==
    IF m = <<>> THEN metrics
    ELSE LET k == m[1][1]
             v == m[1][2]
             next ==
                 IF k = TRADITIONAL
                 THEN [metrics EXCEPT !.Traditional =
                         IF IsFloatText(v) THEN IntOfFloat(FloatOf(v)) ELSE PyStr(v)]
                 ELSE IF k = EDGEAI
                 THEN [metrics EXCEPT !.EdgeAI =
                         IF IsFloatText(v) THEN IntOfFloat(FloatOf(v)) ELSE PyStr(v)]
                 ELSE IF k = REDUCTION
                 THEN [metrics EXCEPT !.Reduction =
                         IF IsFloatText(v) THEN FloatOf(v) ELSE PyStr(v)]
                 ELSE metrics
         IN ApplyMetrics(next, Tail(m))

Returned(ss) == [ss |-> ss, raised |-> FALSE, error |-> <<>>]
\* ValueError of float(v): "could not convert string to float: '<v>'"
Raised(ss, v) ==
    [ss |-> ss, raised |-> TRUE,
     error |-> <<"c", "o", "u", "l", "d", " ", "n", "o", "t", " ",
                 "c", "o", "n", "v", "e", "r", "t", " ",
                 "s", "t", "r", "i", "n", "g", " ", "t", "o", " ",
                 "f", "l", "o", "a", "t", ":", " ", "'">> \o v \o <<"'">>]

\* parse_payload(topic, payload) at time now, on session state ss0: the
\* session state it leaves, and whether it raised
ParsePayload(ss0, topic, payload, now) ==
    LET text == Strip(payload)
        slot_id == SlotIdOf(topic)
        ss == EnsureSlotStructs(ss0, slot_id)
    IN IF EndsWith(topic, <<"m", "e", "t", "r", "i", "c", "s", "/", "t", "r", "a",
                            "n", "s", "m", "i", "s", "s", "i", "o", "n", "s">>)
       THEN Returned(
              [ss EXCEPT
                 !.metrics = ApplyMetrics(@, FindAllKeyValue(text, 1)),
                 !.raw_log = AppendLeft(@, <<now, topic, text>>),
                 !.events[slot_id] = AppendLeft(@, <<now, "METRICS", text>>)])
       ELSE IF Contains(text, PRED_CHANGE)
       THEN LET prob_match == SearchLitRun(text, <<"p", "r", "o", "b", "=">>, DIGIT_DOT)
            IN IF prob_match.ok /\ ~IsFloatText(prob_match.group)
               THEN Raised(ss, prob_match.group)
               ELSE LET prob == IF prob_match.ok THEN FloatOf(prob_match.group)
                                ELSE PyNone
                    IN Returned(
                         [ss EXCEPT
                            !.pred_probs[slot_id] = AppendLeft(@, <<now, prob>>),
                            !.events[slot_id] =
                                AppendLeft(@, <<now, "PRED_CHANGE",
                                                <<"p", "r", "o", "b", "=">>
                                                \o PyText(prob)>>),
                            !.raw_log = AppendLeft(@, <<now, topic, text>>)])
       ELSE IF StartsWith(text, CHANGE)
       THEN LET st_match == SearchState(text)
                state == IF st_match.ok THEN PyInt(ParseInt(st_match.group))
                         ELSE PyNone
            IN Returned(
                 [ss EXCEPT
                    !.occupancy[slot_id] = AppendLeft(@, <<now, state>>),
                    !.events[slot_id] =
                        AppendLeft(@, <<now, "CHANGE",
                                        <<"s", "t", "a", "t", "e", "=">>
                                        \o PyText(state)>>),
                    !.raw_log = AppendLeft(@, <<now, topic, text>>)])
       ELSE IF EndsWith(topic, <<"/", "s", "t", "a", "t", "e">>)
       THEN LET st == IF IsIntText(text) THEN IntOf(text) ELSE PyStr(text)
            IN Returned(
                 [ss EXCEPT
                    !.occupancy[slot_id] = AppendLeft(@, <<now, st>>),
                    !.events[slot_id] = AppendLeft(@, <<now, "STATE", PyText(st)>>),
                    !.raw_log = AppendLeft(@, <<now, topic, text>>)])
       ELSE Returned(
              [ss EXCEPT
                 !.raw_log = AppendLeft(@, <<now, topic, text>>),
                 !.events[slot_id] = AppendLeft(@, <<now, "MSG", text>>)])

\* ------------------------------------------------------------------ simulator
MQTT_ERR_SUCCESS == "MQTT_ERR_SUCCESS"
MQTT_ERR_NO_CONN == "MQTT_ERR_NO_CONN"

Failures(log) == Cardinality({k \in 1..Len(log) : log[k].rc # MQTT_ERR_SUCCESS})

\* the return codes a call of client.publish may give
PublishCodes(log) ==
    IF Failures(log) < MaxFailures THEN {MQTT_ERR_SUCCESS, MQTT_ERR_NO_CONN}
    ELSE {MQTT_ERR_SUCCESS}

\* one call client.publish(topic, payload), made while at row idx
Msg(topic, payload, rc, idx) ==
    [topic |-> topic, payload |-> payload, rc |-> rc, idx |-> idx]

\* the dashboard after its first script run, with the listener thread
\* connected and subscribed, nothing received
DashInit ==
    /\ received = 0
    /\ msg_queue = EmptyQueue
    /\ session_state = [InitialSessionState EXCEPT !.mqtt_started = TRUE]
    /\ clock = 0
    /\ dash_pc = "idle"
    /\ processed = 0
    /\ listener = "connected"
    /\ arrived = <<>>

\* the dashboard at the start of its first script run
DashStart ==
    /\ received = 0
    /\ msg_queue = EmptyQueue
    /\ session_state = InitialSessionState
    /\ clock = 0
    /\ dash_pc = "drain"
    /\ processed = 0
    /\ listener = "none"
    /\ arrived = <<>>

Init ==
    /\ slot = SLOT
    /\ df \in Frames
    /\ pc = "start"
    /\ i = 0
    /\ last_state = 0
    /\ edge_tx = 0
    /\ trad_tx = 0
    /\ published = <<>>
    /\ summary = <<>>
    /\ DashInit

\* mutant: the baseline is a constant, not the first row
SeedState_FromZero ==
    /\ pc = "start"
    /\ IF Len(df) = 0
       THEN /\ pc' = "KeyError"
            /\ UNCHANGED <<i, last_state, edge_tx, trad_tx>>
       ELSE /\ pc' = "loop"
            /\ last_state' = 0
            /\ edge_tx' = 0
            /\ trad_tx' = 0
            /\ i' = 1
    /\ UNCHANGED <<slot, df, published, summary>>
    /\ UNCHANGED dashVars

\* last_state = df.loc[0, "occupied_now"]: KeyError on a frame without rows
SeedState ==
    /\ pc = "start"
    /\ IF Len(df) = 0
       THEN /\ pc' = "KeyError"
            /\ UNCHANGED <<i, last_state, edge_tx, trad_tx>>
       ELSE /\ pc' = "loop"
            /\ last_state' = df[1].occupied_now
            /\ edge_tx' = 0
            /\ trad_tx' = 0
            /\ i' = 1
    /\ UNCHANGED <<slot, df, published, summary>>
    /\ UNCHANGED dashVars

\* mutant: a change counts as two edge transmissions
RuleChange_CountsTwice(row, idx, rc1, rc2) ==
    /\ last_state' = row.occupied_now
    /\ edge_tx' = edge_tx + 2
    /\ published' = published
         \o <<Msg(MQTT_TOPIC_EVENT,
                  ChangePayload(row.occupied_now, row.timestamp), rc1, idx),
              Msg(MQTT_TOPIC_STATE, StatePayload(row.occupied_now), rc2, idx)>>

\* mutant: the state advances only when the event was sent
RuleChange_OnlyWhenSent(row, idx, rc1, rc2) ==
    /\ last_state' = IF rc1 = MQTT_ERR_SUCCESS THEN row.occupied_now ELSE last_state
    /\ edge_tx' = IF rc1 = MQTT_ERR_SUCCESS THEN edge_tx + 1 ELSE edge_tx
    /\ published' = published
         \o <<Msg(MQTT_TOPIC_EVENT,
                  ChangePayload(row.occupied_now, row.timestamp), rc1, idx),
              Msg(MQTT_TOPIC_STATE, StatePayload(row.occupied_now), rc2, idx)>>

\* RULE 1: the messages of an actual change
RuleChange(row, idx, rc1, rc2) ==
    /\ last_state' = row.occupied_now
    /\ edge_tx' = edge_tx + 1
    /\ published' = published
         \o <<Msg(MQTT_TOPIC_EVENT,
                  ChangePayload(row.occupied_now, row.timestamp), rc1, idx),
              Msg(MQTT_TOPIC_STATE, StatePayload(row.occupied_now), rc2, idx)>>

\* mutant: a predicted change is taken for a confirmed one
RulePredChange_SetsState(row, idx, rc1) ==
    /\ edge_tx' = edge_tx + 1
    /\ published' = Append(published,
           Msg(MQTT_TOPIC_EVENT,
               PredChangePayload(row.pred_prob, row.timestamp), rc1, idx))
    /\ last_state' = row.pred_label

\* RULE 2: the message of a predicted change
RulePredChange(row, idx, rc1) ==
    /\ edge_tx' = edge_tx + 1
    /\ published' = Append(published,
           Msg(MQTT_TOPIC_EVENT,
               PredChangePayload(row.pred_prob, row.timestamp), rc1, idx))
    /\ UNCHANGED last_state

\* mutant: a suppressed sample is counted as sent
RuleSuppress_Counts ==
    /\ edge_tx' = edge_tx + 1
    /\ UNCHANGED <<last_state, published>>

\* RULE 3: stable, nothing sent
RuleSuppress ==
    UNCHANGED <<last_state, edge_tx, published>>

\* mutant: the prediction is looked at first
Rule1Fires_UnlessPredicted(row) ==
    row.occupied_now # last_state /\ row.pred_label = 0

Rule1Fires(row) == row.occupied_now # last_state
Rule2Fires(row) == row.pred_label = 1

\* mutant: Rule 1 does not end the iteration, Rule 2 is evaluated after it
ProcessSample_NoContinue ==
    /\ pc = "loop"
    /\ i <= Len(df)
    /\ trad_tx' = trad_tx + 1
    /\ \E rc1 \in PublishCodes(published) :
         LET change == IF Rule1Fires(df[i])
                       THEN <<Msg(MQTT_TOPIC_EVENT,
                                  ChangePayload(df[i].occupied_now, df[i].timestamp),
                                  rc1, i),
                              Msg(MQTT_TOPIC_STATE,
                                  StatePayload(df[i].occupied_now), rc1, i)>>
                       ELSE <<>>
             pred == IF Rule2Fires(df[i])
                     THEN <<Msg(MQTT_TOPIC_EVENT,
                                PredChangePayload(df[i].pred_prob, df[i].timestamp),
                                MQTT_ERR_SUCCESS, i)>>
                     ELSE <<>>
         IN /\ published' = published \o change \o pred
            /\ edge_tx' = edge_tx + (IF change # <<>> THEN 1 ELSE 0)
                                  + (IF pred # <<>> THEN 1 ELSE 0)
            /\ last_state' = df[i].occupied_now
    /\ i' = i + 1
    /\ UNCHANGED <<slot, df, pc, summary>>
    /\ UNCHANGED dashVars

\* one iteration of "for _, row in df.iterrows()"
ProcessSample ==
    /\ pc = "loop"
    /\ i <= Len(df)
    /\ trad_tx' = trad_tx + 1
    /\ IF Rule1Fires(df[i])
       THEN \E rc1 \in PublishCodes(published) :
              \E rc2 \in PublishCodes(Append(published,
                            Msg(MQTT_TOPIC_EVENT, <<>>, rc1, i))) :
                RuleChange(df[i], i, rc1, rc2)
       ELSE IF Rule2Fires(df[i])
       THEN \E rc1 \in PublishCodes(published) : RulePredChange(df[i], i, rc1)
       ELSE RuleSuppress
    /\ i' = i + 1
    /\ UNCHANGED <<slot, df, pc, summary>>
    /\ UNCHANGED dashVars

\* return edge_tx, trad_tx; then __main__ publishes the summary
Main ==
    /\ pc = "loop"
    /\ i > Len(df)
    /\ summary' = SummaryPayload(edge_tx, trad_tx)
    /\ \E rc \in PublishCodes(published) :
         published' = Append(published,
                             Msg(MQTT_TOPIC_METRICS, summary', rc, 0))
    /\ pc' = "done"
    /\ UNCHANGED <<slot, df, i, last_state, edge_tx, trad_tx>>
    /\ UNCHANGED dashVars

Next == SeedState \/ ProcessSample \/ Main

Spec == Init /\ [][Next]_vars

\* ------------------------------------------------------------------ dashboard
\* the next message the broker passes to the subscriber: the published
\* messages whose publish call succeeded, in publish order (0: none left)
NextDelivery ==
    LET left == {j \in (received + 1)..Len(published) :
                    published[j].rc = MQTT_ERR_SUCCESS}
    IN IF left = {} THEN 0 ELSE CHOOSE j \in left : \A k \in left : j <= k

\* on_message: the payload is decoded (the payloads are ASCII, which UTF-8
\* maps one character to one byte) and put on the shared queue
OnMessage ==
    /\ listener = "connected"
    /\ NextDelivery # 0
    /\ LET m == <<published[NextDelivery].topic, published[NextDelivery].payload>>
       IN /\ msg_queue' = QueuePut(msg_queue, m)
          /\ arrived' = Append(arrived, m)
    /\ received' = NextDelivery
    /\ UNCHANGED <<session_state, clock, dash_pc, processed, listener>>
    /\ UNCHANGED simVars

PARSE_ERROR == <<"p", "a", "r", "s", "e", "_", "e", "r", "r", "o", "r">>

\* mutant: the loop has no try/except, an exception ends the script run
DrainOne_StopsOnError ==
    /\ dash_pc = "drain"
    /\ ~QueueEmpty(msg_queue)
    /\ LET topic == QueueFront(msg_queue)[1]
           payload == QueueFront(msg_queue)[2]
           res == ParsePayload(session_state, topic, payload, clock + 1)
       IN /\ session_state' = res.ss
          /\ clock' = clock + 1
          /\ dash_pc' = IF res.raised THEN "idle" ELSE "drain"
    /\ msg_queue' = QueueRest(msg_queue)
    /\ processed' = processed + 1
    /\ UNCHANGED <<received, listener, arrived>>
    /\ UNCHANGED simVars

\* mutant: the except clause records nothing
DrainOne_SkipsError ==
    /\ dash_pc = "drain"
    /\ ~QueueEmpty(msg_queue)
    /\ LET topic == QueueFront(msg_queue)[1]
           payload == QueueFront(msg_queue)[2]
           res == ParsePayload(session_state, topic, payload, clock + 1)
       IN /\ session_state' = res.ss
          /\ clock' = clock + 1
    /\ msg_queue' = QueueRest(msg_queue)
    /\ processed' = processed + 1
    /\ UNCHANGED <<received, dash_pc, listener, arrived>>
    /\ UNCHANGED simVars

\* one iteration of the drain loop: get_nowait, parse_payload, and the
\* parse_error record when it raises
DrainOne ==
    /\ dash_pc = "drain"
    /\ ~QueueEmpty(msg_queue)
    /\ LET topic == QueueFront(msg_queue)[1]
           payload == QueueFront(msg_queue)[2]
           res == ParsePayload(session_state, topic, payload, clock + 1)
       IN IF res.raised
          THEN /\ session_state' =
                    [res.ss EXCEPT !.raw_log =
                        AppendLeft(@, <<clock + 2, PARSE_ERROR,
                                        res.error \o <<" ", "|", " ">> \o topic
                                        \o <<" ", "|", " ">> \o payload>>)]
               /\ clock' = clock + 2
          ELSE /\ session_state' = res.ss
               /\ clock' = clock + 1
    /\ msg_queue' = QueueRest(msg_queue)
    /\ processed' = processed + 1
    /\ UNCHANGED <<received, dash_pc, listener, arrived>>
    /\ UNCHANGED simVars

\* the drain loop ends on an empty queue and the script runs to its end; the
\* first run starts the mqtt_thread, whose connect succeeds (it then gets
\* the messages published from now on) or fails (the thread returns)
FinishRun ==
    /\ dash_pc = "drain"
    /\ QueueEmpty(msg_queue)
    /\ IF ~session_state.mqtt_started
       THEN /\ session_state' = [session_state EXCEPT !.mqtt_started = TRUE]
            /\ \/ listener' = "connected" /\ received' = Len(published)
               \/ listener' = "failed" /\ UNCHANGED received
       ELSE UNCHANGED <<session_state, listener, received>>
    /\ dash_pc' = "idle"
    /\ UNCHANGED <<msg_queue, clock, processed, arrived>>
    /\ UNCHANGED simVars

\* st_autorefresh: the script is run again from the top
Rerun ==
    /\ dash_pc = "idle"
    /\ dash_pc' = "drain"
    /\ processed' = 0
    /\ UNCHANGED <<received, msg_queue, session_state, clock, listener, arrived>>
    /\ UNCHANGED simVars

\* ------------------------------------------------------------------ round trip
\* the slot numbers the round trip is run for
Slots == {1, 3, 12}

AllProbs == {[num |-> k, den |-> ProbDen] : k \in 0..ProbDen}

\* frames of one or two rows over every classifier output
RoundTripFrames ==
    { <<Row(o, p, 0)>> : o \in {0, 1}, p \in AllProbs }
    \cup
    { <<Row(o1, p1, 0), Row(o2, p2, 1)>> :
        o1 \in {0, 1}, p1 \in AllProbs, o2 \in {0, 1}, p2 \in GateProbs }

InitRoundTrip ==
    /\ slot \in Slots
    /\ df \in RoundTripFrames
    /\ pc = "start"
    /\ i = 0
    /\ last_state = 0
    /\ edge_tx = 0
    /\ trad_tx = 0
    /\ published = <<>>
    /\ summary = <<>>
    /\ DashInit

NextRoundTrip == Next \/ OnMessage \/ DrainOne \/ FinishRun \/ Rerun

SpecRoundTrip == InitRoundTrip /\ [][NextRoundTrip]_vars

\* ------------------------------------------------------------------ dashboard alone
\* what other clients publish under smartparking/#, which the dashboard
\* subscribes to: (topic, payload) pairs, well formed and not
MaxInbound == 2

\* a predicted change whose probability is not a number: "PRED_CHANGE: prob=1.2.3" on smartparking/slot2/event
BAD_PROB ==
    <<NAMESPACE \o
        <<"s", "l", "o", "t", "2", "/", "e", "v", "e", "n", "t">>,
        <<"P", "R", "E", "D", "_", "C", "H", "A", "N", "G", "E", ":", " ",
          "p", "r", "o", "b", "=", "1", ".", "2", ".", "3">>>>
\* a predicted change without a probability: "PRED_CHANGE: soon" on smartparking/slot2/event
NO_PROB ==
    <<NAMESPACE \o
        <<"s", "l", "o", "t", "2", "/", "e", "v", "e", "n", "t">>,
        <<"P", "R", "E", "D", "_", "C", "H", "A", "N", "G", "E", ":", " ",
          "s", "o", "o", "n">>>>
\* a change without a state: "CHANGE: state=?" on smartparking/slot1/event
NO_STATE ==
    <<NAMESPACE \o
        <<"s", "l", "o", "t", "1", "/", "e", "v", "e", "n", "t">>,
        <<"C", "H", "A", "N", "G", "E", ":", " ", "s", "t", "a", "t", "e",
          "=", "?">>>>
\* a payload of no known pattern: "hello" on smartparking/slot1/event
UNKNOWN ==
    <<NAMESPACE \o
        <<"s", "l", "o", "t", "1", "/", "e", "v", "e", "n", "t">>,
        <<"h", "e", "l", "l", "o">>>>
\* a full summary: "Traditional=5, EdgeAI=2, Reduction=60.00%" on smartparking/metrics/transmissions
FULL_METRICS ==
    <<NAMESPACE \o
        <<"m", "e", "t", "r", "i", "c", "s", "/", "t", "r", "a", "n", "s",
          "m", "i", "s", "s", "i", "o", "n", "s">>,
        <<"T", "r", "a", "d", "i", "t", "i", "o", "n", "a", "l", "=", "5",
          ",", " ", "E", "d", "g", "e", "A", "I", "=", "2", ",", " ", "R",
          "e", "d", "u", "c", "t", "i", "o", "n", "=", "6", "0", ".", "0",
          "0", "%">>>>
\* a summary with one key: "Traditional=7" on smartparking/metrics/transmissions
PART_METRICS ==
    <<NAMESPACE \o
        <<"m", "e", "t", "r", "i", "c", "s", "/", "t", "r", "a", "n", "s",
          "m", "i", "s", "s", "i", "o", "n", "s">>,
        <<"T", "r", "a", "d", "i", "t", "i", "o", "n", "a", "l", "=", "7">>>>
\* a summary whose value is not a number: "EdgeAI=1.2.3" on smartparking/metrics/transmissions
BAD_METRICS ==
    <<NAMESPACE \o
        <<"m", "e", "t", "r", "i", "c", "s", "/", "t", "r", "a", "n", "s",
          "m", "i", "s", "s", "i", "o", "n", "s">>,
        <<"E", "d", "g", "e", "A", "I", "=", "1", ".", "2", ".", "3">>>>
\* a state: "1" on smartparking/slot2/state
STATE_ONE ==
    <<NAMESPACE \o
        <<"s", "l", "o", "t", "2", "/", "s", "t", "a", "t", "e">>,
        <<"1">>>>
\* a topic without a slot, a payload with blanks around it: " open " on smartparking/gate
NO_SLOT ==
    <<NAMESPACE \o
        <<"g", "a", "t", "e">>,
        <<" ", "o", "p", "e", "n", " ">>>>

InboundMessages ==
    {BAD_PROB, NO_PROB, NO_STATE, UNKNOWN, FULL_METRICS,
     PART_METRICS, BAD_METRICS, STATE_ONE, NO_SLOT}

\* another client publishes one of msgs on the broker, max times at most
PublishFrom(msgs, max) ==
    /\ Len(published) < max
    /\ \E m \in msgs :
           published' = Append(published, Msg(m[1], m[2], MQTT_ERR_SUCCESS, 0))
    /\ UNCHANGED <<slot, df, pc, i, last_state, edge_tx, trad_tx, summary>>
    /\ UNCHANGED dashVars

BrokerPublish == PublishFrom(InboundMessages, MaxInbound)

\* the dashboard is started; the simulator is not running
InitDashboard ==
    /\ slot = SLOT
    /\ df = <<>>
    /\ pc = "off"
    /\ i = 0
    /\ last_state = 0
    /\ edge_tx = 0
    /\ trad_tx = 0
    /\ published = <<>>
    /\ summary = <<>>
    /\ DashStart

NextDashboard == BrokerPublish \/ OnMessage \/ DrainOne \/ FinishRun \/ Rerun

SpecDashboard == InitDashboard /\ [][NextDashboard]_vars

\* a step of the drain loop, told by the loop's condition and its counter:
\* the steps of DrainOne, which is enabled whenever the condition holds
DrainStep ==
    /\ dash_pc = "drain"
    /\ ~QueueEmpty(msg_queue)
    /\ processed' = processed + 1

\* the network loop of the listener delivers what the broker holds, a
\* running script goes on running, and the auto-refresh timer runs the
\* script again and again
SpecDashboardFair ==
    /\ SpecDashboard
    /\ WF_vars(OnMessage)
    /\ WF_processed(DrainStep)
    /\ WF_vars(FinishRun)
    /\ WF_vars(Rerun)

\* ------------------------------------------------------------------ long session
RECURSIVE Replay(_, _, _, _)
\* the session state after n messages m were decoded on ss, one at each of
\* the times now + 1 .. now + n (the first half, then the rest)
Replay(ss, m, n, now) ==
    IF n = 0 THEN ss
    ELSE IF n = 1 THEN ParsePayload(ss, m[1], m[2], now + 1).ss
    ELSE LET half == Replay(ss, m, n \div 2, now)
         IN IF Len(half.raw_log) > 0
            THEN Replay(half, m, n - (n \div 2), now + (n \div 2))
            ELSE half

\* a session that has decoded DEQUE_MAXLEN predicted changes and then
\* DEQUE_MAXLEN - 1 states of slot 2: its events, pred_probs and raw_log are
\* full, its occupancy is one entry short
LongSession ==
    Replay(Replay(InitialSessionState, NO_PROB, DEQUE_MAXLEN, 0),
           STATE_ONE, DEQUE_MAXLEN - 1, DEQUE_MAXLEN)

\* the dashboard late in a long session, between two script runs; the
\* listener's variables count from here
InitLongSession ==
    /\ slot = SLOT
    /\ df = <<>>
    /\ pc = "off"
    /\ i = 0
    /\ last_state = 0
    /\ edge_tx = 0
    /\ trad_tx = 0
    /\ published = <<>>
    /\ summary = <<>>
    /\ received = 0
    /\ msg_queue = EmptyQueue
    /\ session_state = [LongSession EXCEPT !.mqtt_started = TRUE]
    /\ clock = 2 * DEQUE_MAXLEN - 1
    /\ dash_pc = "idle"
    /\ processed = 0
    /\ listener = "connected"
    /\ arrived = <<>>

\* what arrives late in the session: a state and a predicted change of
\* slot 2, whose buffers are full or nearly so, and a message of slot 1
MaxLate == 2
LateMessages == {STATE_ONE, NO_PROB, UNKNOWN}
LatePublish == PublishFrom(LateMessages, MaxLate)

NextLongSession == LatePublish \/ OnMessage \/ DrainOne \/ FinishRun \/ Rerun

SpecLongSession == InitLongSession /\ [][NextLongSession]_vars

\* ------------------------------------------------------------------ reading the log
\* the rows the loop has gone through
Processed == IF pc \in {"loop", "done"} THEN 1..(i - 1) ELSE {}

EventMsgs(k) ==
    {j \in 1..Len(published) :
        published[j].idx = k /\ published[j].topic = MQTT_TOPIC_EVENT}
StateMsgs(k) ==
    {j \in 1..Len(published) :
        published[j].idx = k /\ published[j].topic = MQTT_TOPIC_STATE}
ChangeMsgs(k) ==
    {j \in EventMsgs(k) : StartsWith(published[j].payload, CHANGE)}
PredMsgs(k) ==
    {j \in EventMsgs(k) : StartsWith(published[j].payload, PRED_CHANGE)}

\* the state a Change event carries: the digit after "CHANGE: state="
NewStateOf(m) == m.payload[15]

Flips(k) == k > 1 /\ df[k].occupied_now # df[k - 1].occupied_now

\* ------------------------------------------------------------------ claims
\* C1: after every processed sample edge_tx <= trad_tx, trad_tx counts the
\* samples processed so far, and when the loop has finished trad_tx = N.
C1_EdgeLeTrad ==
    pc \in {"loop", "done"} =>
        /\ edge_tx <= trad_tx
        /\ trad_tx = i - 1
        /\ (pc = "done" => trad_tx = Len(df))

C1_Witness ==
    /\ pc = "done" /\ Len(df) = 3
    /\ edge_tx = 2 /\ trad_tx = 3

\* C2: every processed index k > 1 whose occupancy differs from that of k-1
\* has exactly one Change event, and the event carries occupancy[k],
\* whatever the prediction for k is.
C2_EveryFlipOneChange ==
    \A k \in Processed :
        Flips(k) =>
            /\ Cardinality(ChangeMsgs(k)) = 1
            /\ \A j \in ChangeMsgs(k) :
                 NewStateOf(published[j]) = DigitChars[df[k].occupied_now + 1]

C2_Witness ==
    /\ pc = "done"
    /\ \E k \in Processed : Flips(k) /\ df[k].pred_label = 1
    /\ \E k \in Processed : Flips(k) /\ df[k].pred_label = 0

\* C3: no Change event for a sample whose occupancy equals that of the
\* previous sample, and none for the first sample.
C3_NoChangeWithoutFlip ==
    \A k \in Processed : ~Flips(k) => ChangeMsgs(k) = {}

C3_Witness ==
    /\ pc = "done" /\ Len(df) >= 3
    /\ df[1].occupied_now = 1
    /\ ~Flips(2) /\ df[2].pred_label = 1
    /\ published # <<>>

\* C4: in every iteration a PredictedChange is published iff the occupancy
\* of the row equals last_state (Rule 1 does not fire) and its pred_label is
\* 1; when the occupancy flips and pred_label is 1 the only event is Change.
C4_PredChangeIff ==
    [][(pc = "loop" /\ i' = i + 1) =>
        LET new == SubSeq(published', Len(published) + 1, Len(published'))
            preds == {j \in 1..Len(new) :
                        /\ new[j].topic = MQTT_TOPIC_EVENT
                        /\ StartsWith(new[j].payload, PRED_CHANGE)}
            changes == {j \in 1..Len(new) :
                        /\ new[j].topic = MQTT_TOPIC_EVENT
                        /\ StartsWith(new[j].payload, CHANGE)}
        IN /\ Cardinality(preds) =
                IF df[i].occupied_now = last_state /\ df[i].pred_label = 1
                THEN 1 ELSE 0
           /\ (df[i].occupied_now # last_state /\ df[i].pred_label = 1)
                => (Cardinality(changes) = 1 /\ preds = {})
      ]_vars

C4_Witness ==
    /\ pc = "done"
    /\ \E k \in Processed :
         Flips(k) /\ df[k].pred_label = 1 /\ PredMsgs(k) = {} /\ ChangeMsgs(k) # {}
    /\ \E k \in Processed : PredMsgs(k) # {}
    /\ \E k \in Processed : ~Flips(k) /\ df[k].pred_label = 0

\* C5: once a sample has been processed last_state is the occupancy of the
\* most recently processed sample, whichever rule the sample took.
C5_LastStateTracks ==
    (pc \in {"loop", "done"} /\ i > 1) => last_state = df[i - 1].occupied_now

C5_Witness ==
    /\ pc = "loop" /\ i = 4
    /\ ChangeMsgs(2) # {}
    /\ PredMsgs(3) # {}
    /\ last_state = 1

\* C6: edge_tx is the number of messages published on the event topic, and
\* the state topic carries one message per Change event.
C6_CountersMatchLog ==
    LET onEvent == {j \in 1..Len(published) : published[j].topic = MQTT_TOPIC_EVENT}
        onState == {j \in 1..Len(published) : published[j].topic = MQTT_TOPIC_STATE}
        changes == {j \in onEvent : StartsWith(published[j].payload, CHANGE)}
        preds == {j \in onEvent : StartsWith(published[j].payload, PRED_CHANGE)}
    IN /\ edge_tx = Cardinality(onEvent)
       /\ Cardinality(onEvent) = Cardinality(changes) + Cardinality(preds)
       /\ Cardinality(onState) = Cardinality(changes)

C6_Witness ==
    /\ pc = "done" /\ edge_tx = 2 /\ trad_tx >= 4
    /\ \E k \in Processed : ChangeMsgs(k) # {}
    /\ \E k \in Processed : PredMsgs(k) # {}
    /\ \E k \in Processed : EventMsgs(k) = {} /\ StateMsgs(k) = {}

\* the text of a summary after "Reduction=" and before the final "%"
ReductionText(e, t) ==
    LET prefix == <<"T", "r", "a", "d", "i", "t", "i", "o", "n", "a", "l", "=">>
                  \o Dec(t) \o <<",", " ", "E", "d", "g", "e", "A", "I", "=">>
                  \o Dec(e)
                  \o <<",", " ", "R", "e", "d", "u", "c", "t", "i", "o", "n", "=">>
    IN IF StartsWith(summary, prefix) /\ summary[Len(summary)] = "%"
       THEN SubSeq(summary, Len(prefix) + 1, Len(summary) - 1)
       ELSE <<>>

\* t is <digits>.<two digits>
IsFixed2(t) ==
    /\ Len(t) >= 4
    /\ t[Len(t) - 2] = "."
    /\ AllDigits(SubSeq(t, 1, Len(t) - 3))
    /\ AllDigits(SubSeq(t, Len(t) - 1, Len(t)))

\* the value of such a text, in hundredths
Hundredths(t) ==
    100 * ParseInt(SubSeq(t, 1, Len(t) - 3)) + ParseInt(SubSeq(t, Len(t) - 1, Len(t)))

ScenarioA ==
    /\ Len(df) = 5
    /\ <<df[1].occupied_now, df[2].occupied_now, df[3].occupied_now,
         df[4].occupied_now, df[5].occupied_now>> = <<0, 0, 1, 1, 0>>
    /\ \A k \in 1..5 : df[k].pred_label = 0

\* C7: the summary published at the end of a run reads Traditional=trad_tx,
\* EdgeAI=edge_tx and Reduction = 100 * (1 - edge_tx/trad_tx) to two
\* decimals, which lies between 0 and 100; occupancy [0,0,1,1,0] with all
\* predictions 0 gives Traditional=5, EdgeAI=2, Reduction=60.00.
C7_SummaryReportsCounters ==
    pc = "done" =>
        LET r == ReductionText(edge_tx, trad_tx)
            d == Hundredths(r) * trad_tx - 10000 * (trad_tx - edge_tx)
        IN /\ trad_tx > 0
           /\ IsFixed2(r)
           /\ 2 * (IF d < 0 THEN -d ELSE d) <= trad_tx
           /\ Hundredths(r) >= 0 /\ Hundredths(r) <= 10000
           /\ published[Len(published)].topic = MQTT_TOPIC_METRICS
           /\ published[Len(published)].payload = summary
           /\ ScenarioA =>
                summary = <<"T", "r", "a", "d", "i", "t", "i", "o", "n", "a", "l",
                            "=", "5", ",", " ", "E", "d", "g", "e", "A", "I", "=",
                            "2", ",", " ", "R", "e", "d", "u", "c", "t", "i", "o",
                            "n", "=", "6", "0", ".", "0", "0", "%">>

C7_Witness ==
    /\ pc = "done"
    /\ ScenarioA
    /\ edge_tx = 2 /\ trad_tx = 5

\* C8: on an empty input sequence the run completes without error with
\* trad_tx = 0 and edge_tx = 0 and reports a reduction of 0.
C8_EmptyRunCompletes ==
    (Len(df) = 0 /\ pc # "start") =>
        /\ pc = "done"
        /\ trad_tx = 0 /\ edge_tx = 0
        /\ ReductionText(0, 0) = <<"0", ".", "0", "0">>

\* the edge transmissions of the first n rows, from the input alone
ExpectedEdge(n) ==
    Cardinality({k \in 1..n : Flips(k) \/ df[k].pred_label = 1})

\* C9: a publish call that returns an error changes nothing else: after
\* each sample last_state, edge_tx and trad_tx are what the input alone
\* determines, no sample has a second message on a topic (no retry), and
\* the loop goes on to the end of the input.
C9_PublishFailureAdvances ==
    pc \in {"loop", "done"} =>
        /\ trad_tx = i - 1
        /\ edge_tx = ExpectedEdge(i - 1)
        /\ (i > 1 => last_state = df[i - 1].occupied_now)
        /\ \A k \in Processed :
             /\ Cardinality(EventMsgs(k)) =
                  IF Flips(k) \/ df[k].pred_label = 1 THEN 1 ELSE 0
             /\ Cardinality(StateMsgs(k)) = IF Flips(k) THEN 1 ELSE 0
        /\ (pc = "loop" => ENABLED (ProcessSample \/ Main))
        /\ (pc = "done" => i = Len(df) + 1)

C9_Witness ==
    /\ pc = "done" /\ Len(df) >= 3
    /\ \E j \in 1..Len(published) :
         /\ published[j].rc # MQTT_ERR_SUCCESS
         /\ published[j].idx = 2
         /\ StartsWith(published[j].payload, CHANGE)
    /\ last_state = df[Len(df)].occupied_now
    /\ ChangeMsgs(3) # {}

\* the published messages the subscriber gets, in order
IsSent(m) == m.rc = MQTT_ERR_SUCCESS
Sent == SelectSeq(published, IsSent)

\* the entries of a deque d of slot sid that were recorded at time now
EntriesAt(dict, sid, now) ==
    IF sid \in DOMAIN dict
    THEN {dict[sid][k] : k \in {l \in 1..Len(dict[sid]) : dict[sid][l][1] = now}}
    ELSE {}

\* x is a float within half a thousandth of prob, with three decimals at most
IsProbTo3Places(x, prob) ==
    /\ x[1] = "float"
    /\ x[3] <= 3
    /\ LET thousandths == x[2] * Pow10(3 - x[3])
           d == thousandths * prob.den - 1000 * prob.num
       IN 2 * (IF d < 0 THEN -d ELSE d) <= prob.den

\* C10: round trip. Every event message of the gate that has been decoded
\* (the j-th message received is decoded at time j) is recorded under the
\* slot id of its topic with the kind of the gate's event and its number:
\* CHANGE with the row's occupancy, PRED_CHANGE with the row's probability
\* to three decimals.
C10_RoundTrip ==
    \A j \in 1..clock :
        LET m == Sent[j]
            sid == SLOT_TEXT \o Dec(slot)
            kinds == {e[2] : e \in EntriesAt(session_state.events, sid, j)}
            occs == {e[2] : e \in EntriesAt(session_state.occupancy, sid, j)}
            probs == {e[2] : e \in EntriesAt(session_state.pred_probs, sid, j)}
        IN m.topic = MQTT_TOPIC_EVENT =>
             IF Flips(m.idx)
             THEN /\ kinds = {"CHANGE"}
                  /\ occs = {PyInt(df[m.idx].occupied_now)}
                  /\ probs = {}
             ELSE /\ kinds = {"PRED_CHANGE"}
                  /\ occs = {}
                  /\ Cardinality(probs) = 1
                  /\ \A x \in probs : IsProbTo3Places(x, df[m.idx].pred_prob)

C10_Witness ==
    /\ pc = "done" /\ slot = 12 /\ Len(df) = 2
    /\ clock = Len(published) /\ msg_queue = <<>>
    /\ df[1].pred_prob.num * 16 = 9 * df[1].pred_prob.den
    /\ Flips(2)
    /\ EntriesAt(session_state.pred_probs, SLOT_TEXT \o <<"1", "2">>, 1)
         = {<<1, PyFloat(562, 3)>>}
    /\ EntriesAt(session_state.occupancy, SLOT_TEXT \o <<"1", "2">>, 2)
         = {<<2, PyInt(df[2].occupied_now)>>}

\* ------------------------------------------------------------------ C11
METRICS_SUFFIX ==
    <<"m", "e", "t", "r", "i", "c", "s", "/", "t", "r", "a", "n", "s", "m", "i",
      "s", "s", "i", "o", "n", "s">>
STATE_SUFFIX == <<"/", "s", "t", "a", "t", "e">>

\* a (topic, payload) that none of the four patterns of parse_payload takes
MatchesNoPattern(topic, payload) ==
    /\ ~EndsWith(topic, METRICS_SUFFIX)
    /\ ~Contains(Strip(payload), PRED_CHANGE)
    /\ ~StartsWith(Strip(payload), CHANGE)
    /\ ~EndsWith(topic, STATE_SUFFIX)

\* a step of the drain loop: the counter of line 135 goes up
IsDrainStep == processed' = processed + 1

\* the text of the topic's slot, as the topics of this model carry it
SlotKeyOf(topic) ==
    IF Contains(topic, SLOT_TEXT \o <<"2">>) THEN SLOT_TEXT \o <<"2">>
    ELSE IF Contains(topic, SLOT_TEXT \o <<"3">>) THEN SLOT_TEXT \o <<"3">>
    ELSE IF Contains(topic, SLOT_TEXT \o <<"1", "2">>) THEN SLOT_TEXT \o <<"1", "2">>
    ELSE SLOT_TEXT \o <<"1">>

C11_Step ==
    /\ IsDrainStep =>
         /\ msg_queue' = Tail(msg_queue)
         /\ dash_pc' = "drain"
         /\ Len(session_state'.raw_log) = Len(session_state.raw_log) + 1
         /\ LET topic == Head(msg_queue)[1]
                payload == Head(msg_queue)[2]
                sid == SlotKeyOf(topic)
            IN MatchesNoPattern(topic, payload) =>
                 /\ clock' = clock + 1
                 /\ session_state'.raw_log[1] = <<clock', topic, Strip(payload)>>
                 /\ sid \in DOMAIN session_state'.events
                 /\ session_state'.events[sid][1] = <<clock', "MSG", Strip(payload)>>
    /\ (dash_pc = "drain" /\ dash_pc' = "idle") => msg_queue = <<>>

\* C11: a message of no known pattern is recorded as a MSG event and a
\* raw_log entry without raising, and whatever a message is, the drain loop
\* takes it off the queue, stays in the loop with the later messages still
\* queued, and ends only on an empty queue
C11_UnknownRecordedLoopContinues == [][C11_Step]_vars

\* an unknown message was applied right after one whose decoding raised
C11_Witness ==
    /\ Len(session_state.raw_log) >= 2
    /\ session_state.raw_log[2][2] = PARSE_ERROR
    /\ session_state.raw_log[1] = <<clock, UNKNOWN[1], UNKNOWN[2]>>
    /\ session_state.events[SLOT_TEXT \o <<"1">>][1] = <<clock, "MSG", UNKNOWN[2]>>

\* ------------------------------------------------------------------ C12
RECURSIVE EventCount(_, _)
\* the entries of the event buffers of the slot ids in keys
EventCount(events, keys) ==
    IF keys = {} THEN 0
    ELSE LET k == CHOOSE x \in keys : TRUE
         IN Len(events[k]) + EventCount(events, keys \ {k})

\* the messages the drain loop has taken off the queue
Drained == Len(arrived) - Len(msg_queue)

\* C12: a recognized payload with a missing or invalid numeric field is
\* decoded without raising (no parse_error record), the field becomes None
\* (no metrics value is kept as text), and every message taken off the queue
\* has its event in a slot's event buffer
C12_InvalidFieldsBecomeNone ==
    /\ \A k \in 1..Len(session_state.raw_log) :
           session_state.raw_log[k][2] # PARSE_ERROR
    /\ session_state.metrics.Traditional[1] # "str"
    /\ session_state.metrics.EdgeAI[1] # "str"
    /\ session_state.metrics.Reduction[1] # "str"
    /\ EventCount(session_state.events, DOMAIN session_state.events) = Drained

\* ------------------------------------------------------------------ C13
C13_Step ==
    (IsDrainStep /\ EndsWith(Head(msg_queue)[1], METRICS_SUFFIX)) =>
        LET topic == Head(msg_queue)[1]
            payload == Head(msg_queue)[2]
            once == session_state'
            twice == ParsePayload(once, topic, payload, clock' + 1).ss
        IN /\ twice.metrics = once.metrics
           /\ (Len(session_state.raw_log) >= 1
               /\ session_state.raw_log[1][2] = topic
               /\ session_state.raw_log[1][3] = Strip(payload))
              => session_state'.metrics = session_state.metrics

\* C13: whatever the consumer held before, once a metrics payload has been
\* decoded, decoding the same payload again leaves Traditional, EdgeAI and
\* Reduction as they are
C13_MetricsIdempotent == [][C13_Step]_vars

\* the same full summary was decoded twice in succession
C13_Witness ==
    /\ Len(session_state.raw_log) >= 2
    /\ session_state.raw_log[1][2] = FULL_METRICS[1]
    /\ session_state.raw_log[1][3] = FULL_METRICS[2]
    /\ session_state.raw_log[2][2] = FULL_METRICS[1]
    /\ session_state.raw_log[2][3] = FULL_METRICS[2]
    /\ session_state.metrics.Traditional = PyInt(5)
    /\ session_state.metrics.EdgeAI = PyInt(2)

\* ------------------------------------------------------------------ C14
\* the snapshot a metrics payload gives on the snapshot of a fresh session
SnapshotOf(topic, text) == ParsePayload(InitialSessionState, topic, text, 0).ss.metrics

\* C14: the metrics snapshot after decoding a metrics payload depends on the
\* payload text alone: whatever was held before, it is the snapshot the same
\* payload gives on a fresh session
C14_SnapshotFromTextAlone ==
    (/\ Len(session_state.raw_log) >= 1
     /\ EndsWith(session_state.raw_log[1][2], METRICS_SUFFIX))
    => session_state.metrics =
           SnapshotOf(session_state.raw_log[1][2], session_state.raw_log[1][3])

\* ------------------------------------------------------------------ C15
\* the live slot grid: the state of the newest entry of the slot's occupancy
\* buffer, None when there is none
LatestOccupancy(ss, sid) ==
    IF sid \in DOMAIN ss.occupancy /\ ss.occupancy[sid] # <<>>
    THEN ss.occupancy[sid][1][2]
    ELSE PyNone

\* the run is over, every publish succeeded, and the dashboard has received
\* and decoded every message
AllDecoded ==
    /\ pc = "done"
    /\ Failures(published) = 0
    /\ received = Len(published)
    /\ arrived = [k \in 1..Len(published) |->
                    <<published[k].topic, published[k].payload>>]
    /\ msg_queue = <<>>

\* C15: after a run over at least one sample, once everything the gate
\* published has been delivered in order and decoded, the newest occupancy
\* the consumer holds for the slot is the gate's last_state
C15_ConsumerHoldsLastState ==
    (Len(df) > 0 /\ AllDecoded)
    => LatestOccupancy(session_state, SLOT_TEXT \o Dec(slot)) = PyInt(last_state)

\* ------------------------------------------------------------------ C16
\* the positions of the summary in the log of publish calls
SummaryCalls == {k \in 1..Len(published) : published[k].topic = MQTT_TOPIC_METRICS}

\* the run is over: the script has left run_simulation and __main__
RunOver == pc \notin {"start", "loop"}

\* C16: the loop ends after one pass over each of the N samples, and the
\* summary is published once in a run, after every event and state message:
\* a run that is over has counted N samples and made one summary call, the
\* last call of the log, and no run makes a summary call earlier
C16_OneSummaryAfterAllSamples ==
    /\ Cardinality(SummaryCalls) <= 1
    /\ SummaryCalls # {} => (SummaryCalls = {Len(published)} /\ trad_tx = Len(df))
    /\ RunOver => (Cardinality(SummaryCalls) = 1 /\ trad_tx = Len(df))

\* ------------------------------------------------------------------ C17
\* raw_log entry e is what the drain loop leaves for the queued message m
AppliedAs(e, m) ==
    \/ e[2] = m[1] /\ e[3] = Strip(m[2])
    \/ /\ e[2] = PARSE_ERROR
       /\ EndsWith(e[3], <<" ", "|", " ">> \o m[1] \o <<" ", "|", " ">> \o m[2])

\* the times of the entries of a buffer, in the buffer's order
Stamps(buf) == [k \in 1..Len(buf) |-> buf[k][1]]

\* the times at which messages of slot id sid were decoded, newest first
SlotStamps(sid) ==
    LET OfSlot(e) == e[2] # PARSE_ERROR /\ SlotKeyOf(e[2]) = sid
    IN Stamps(SelectSeq(session_state.raw_log, OfSlot))

IsSubSeq(a, b) ==
    \E f \in [1..Len(a) -> 1..Len(b)] :
        /\ \A k \in 1..Len(a) : a[k] = b[f[k]]
        /\ \A j, k \in 1..Len(a) : j < k => f[j] < f[k]

\* C17: the messages are applied in the order on_message received them: the
\* k-th message put on the queue is the k-th applied, so raw_log lists what
\* was applied newest first, each slot's event buffer lists that slot's
\* decoded messages newest first, and its pred_probs and occupancy buffers
\* list some of them in the same order
C17_AppliedInArrivalOrder ==
    /\ Len(session_state.raw_log) = Drained
    /\ \A k \in 1..Drained :
           AppliedAs(session_state.raw_log[Drained - k + 1], arrived[k])
    /\ \A j, k \in 1..Len(session_state.raw_log) :
           j < k => session_state.raw_log[j][1] > session_state.raw_log[k][1]
    /\ \A sid \in DOMAIN session_state.events :
           /\ Stamps(session_state.events[sid]) = SlotStamps(sid)
           /\ IsSubSeq(Stamps(session_state.pred_probs[sid]), SlotStamps(sid))
           /\ IsSubSeq(Stamps(session_state.occupancy[sid]), SlotStamps(sid))

\* two messages of slot 1, a CHANGE and then an unknown one, were decoded,
\* the second in a later pass of the drain loop than the first
C17_Witness ==
    /\ Len(arrived) >= 2
    /\ arrived[1] = NO_STATE /\ arrived[2] = UNKNOWN
    /\ Drained = 2
    /\ processed = 1
    /\ Len(session_state.events[SLOT_TEXT \o <<"1">>]) = 2
    /\ session_state.events[SLOT_TEXT \o <<"1">>][1][2] = "MSG"
    /\ session_state.events[SLOT_TEXT \o <<"1">>][2][2] = "CHANGE"
    /\ Len(session_state.occupancy[SLOT_TEXT \o <<"1">>]) = 1

\* ------------------------------------------------------------------ C18
\* the buffers of a session state: raw_log and the three of each slot id
Buffers(ss) ==
    {<<"raw_log", "">>}
    \cup {<<"events", sid>> : sid \in DOMAIN ss.events}
    \cup {<<"pred_probs", sid>> : sid \in DOMAIN ss.pred_probs}
    \cup {<<"occupancy", sid>> : sid \in DOMAIN ss.occupancy}

BufferOf(ss, b) ==
    CASE b[1] = "raw_log" -> ss.raw_log
      [] b[1] = "events" -> ss.events[b[2]]
      [] b[1] = "pred_probs" -> ss.pred_probs[b[2]]
      [] b[1] = "occupancy" -> ss.occupancy[b[2]]

AllBounded(ss) == \A b \in Buffers(ss) : Len(BufferOf(ss, b)) <= DEQUE_MAXLEN

\* a buffer that changes gets one new entry at its head and keeps its other
\* entries in order, all of them unless it was full, and then all but the
\* oldest
C18_Step ==
    \A b \in Buffers(session_state) :
        LET old == BufferOf(session_state, b)
            new == BufferOf(session_state', b)
        IN new # old =>
             /\ new[1][1] = clock'
             /\ \A k \in 1..Len(old) : old[k][1] < clock'
             /\ IF Len(old) = DEQUE_MAXLEN
                THEN /\ Len(new) = DEQUE_MAXLEN
                     /\ SubSeq(new, 2, DEQUE_MAXLEN) = SubSeq(old, 1, DEQUE_MAXLEN - 1)
                ELSE Tail(new) = old

\* C18: no buffer ever holds more than DEQUE_MAXLEN entries, and a full
\* buffer that receives an entry drops its oldest one and keeps the new one
\* and all the others
C18_BoundedHistory == []AllBounded(session_state) /\ [][C18_Step]_vars

\* slot 2's occupancy buffer was filled and has then evicted its oldest
\* entry, the one recorded at time DEQUE_MAXLEN + 1
C18_Witness ==
    LET occ == session_state.occupancy[SLOT_TEXT \o <<"2">>]
    IN /\ Len(occ) = DEQUE_MAXLEN
       /\ occ[DEQUE_MAXLEN][1] = DEQUE_MAXLEN + 2
       /\ occ[1][1] = clock
       /\ Len(session_state.raw_log) = DEQUE_MAXLEN

\* ------------------------------------------------------------------ C19
\* dict new holds for every slot id but sid what dict old holds
SameButFor(old, new, sid) ==
    /\ DOMAIN new \subseteq DOMAIN old \cup {sid}
    /\ \A k \in DOMAIN old \ {sid} : k \in DOMAIN new /\ new[k] = old[k]

C19_Step ==
    IsDrainStep =>
        LET topic == Head(msg_queue)[1]
            sid == SlotKeyOf(topic)
        IN /\ SameButFor(session_state.events, session_state'.events, sid)
           /\ SameButFor(session_state.pred_probs, session_state'.pred_probs, sid)
           /\ SameButFor(session_state.occupancy, session_state'.occupancy, sid)
           /\ ~EndsWith(topic, METRICS_SUFFIX)
              => session_state'.metrics = session_state.metrics

\* C19: decoding a message whose topic names slot id s (slot1 when it names
\* none) leaves every other slot id's events, pred_probs and occupancy
\* buffers as they are and creates no other slot id, and only a message of
\* the metrics topic changes the metrics
C19_SlotIsolation == [][C19_Step]_vars

\* a message of slot 2 was decoded while slot 1 held an entry
C19_Witness ==
    /\ Drained = 2
    /\ DOMAIN session_state.events = {SLOT_TEXT \o <<"1">>, SLOT_TEXT \o <<"2">>}
    /\ session_state.raw_log[1][2] = STATE_ONE[1]
    /\ Len(session_state.occupancy[SLOT_TEXT \o <<"2">>]) = 1
    /\ Len(session_state.events[SLOT_TEXT \o <<"1">>]) = 1
    /\ session_state.events[SLOT_TEXT \o <<"1">>][1][2] = "MSG"

\* ------------------------------------------------------------------ C20
\* what on_message has put on the queue is what was applied, each message by
\* one raw_log entry, followed by what is still queued
C20_Safe ==
    /\ Drained >= 0
    /\ msg_queue = SubSeq(arrived, Drained + 1, Len(arrived))
    /\ Len(session_state.raw_log) = Drained
    /\ \A k \in 1..Drained :
           LET e == session_state.raw_log[Drained - k + 1]
           IN IF e[2] = PARSE_ERROR
              THEN ParsePayload(InitialSessionState, arrived[k][1], arrived[k][2], 0).raised
              ELSE e[2] = arrived[k][1] /\ e[3] = Strip(arrived[k][2])

\* C20: between on_message and the session state no message is lost or
\* applied twice: the queue holds the messages received and not yet applied,
\* each applied message has left one raw_log entry, decoded or parse_error,
\* and with the script rerun again and again every message put on the queue
\* is in the end taken off it and applied
C20_NoLossNoDuplicate ==
    /\ []C20_Safe
    /\ \A k \in 1..MaxInbound :
           (Len(arrived) >= k) ~> (Drained >= k /\ Len(session_state.raw_log) >= k)

\* both messages received were applied, the first by a parse_error record,
\* the second decoded, and the script run has ended
C20_Witness ==
    /\ arrived = <<BAD_PROB, STATE_ONE>>
    /\ msg_queue = <<>>
    /\ dash_pc = "idle"
    /\ Len(session_state.raw_log) = 2
    /\ session_state.raw_log[2][2] = PARSE_ERROR
    /\ session_state.raw_log[1][2] = STATE_ONE[1]

====
